---------------------------- MODULE Spec2Model ----------------------------
(***************************************************************************)
(* Model of src/python/diarize.py: the command line entry point and        *)
(* diarize_audio(audio_file, output_file).                                 *)
(*                                                                         *)
(* A run is one process executing the script.  The external pipeline       *)
(* (pyannote) is a stub: what it returns, and whether it raises, is the    *)
(* environment's choice.  The output file is a sequence of characters;     *)
(* json.dump writes it chunk by chunk at the offset of the run's own file  *)
(* handle, after open(..., "w") has created or truncated it.               *)
(*                                                                         *)
(* Times are held in tenths of a second (12 is 1.2 s); a character is a    *)
(* one-character string; a text is a sequence of characters.               *)
(***************************************************************************)
EXTENDS Integers, Sequences, FiniteSets, TLC

VARIABLES
    argv,            \* per run: the flags given on the command line
    env_token,       \* per run: HUGGINGFACE_TOKEN in the environment
    audioOK,         \* per run: the audio path names a readable audio file
    stubResult,      \* per run: the triples the stubbed pipeline will yield
    pc,              \* per run: position in the script
    access_token,    \* per run: local access_token (line 14)
    use_auth_token,  \* per run: the credential from_pretrained was called with
    diarization,     \* per run: local diarization (line 27)
    it,              \* per run: triples of itertracks consumed so far
    segments,        \* per run: local segments (line 30)
    chunks,          \* per run: chunks json.dump still has to write
    pos,             \* per run: offset of the run's handle on the output file
    stdout,          \* per run: messages printed
    stderr,          \* per run: diagnostics of the run time
    exit,            \* per run: exit status, -1 while running
    calls,           \* per run: the stages entered, in order
    fileExists,      \* the output path exists
    fileData,        \* the content of the output path
    before,          \* the output path as it was before any run started
    lastWriter       \* the run that wrote to the output path last (0: none)

vars == <<argv, env_token, audioOK, stubResult, pc, access_token,
          use_auth_token, diarization, it, segments, chunks, pos, stdout,
          stderr, exit, calls, fileExists, fileData, before, lastWriter>>

(***************************************************************************)
(* Bounds and input domains                                                *)
(***************************************************************************)
MaxSegs == 2

Procs == DOMAIN pc

None == "None"
Tokens == {None, "", "hf_token"}

\* the two required flags, and the help flag argparse adds to every parser
Flags == {"--audio", "--output"}
HelpFlag == "-h"

Quote == "\""
Backslash == "\\"
Newline == "\n"
Space == " "
Nul == "NUL"

Triple(s, e, t, l) == [start |-> s, end |-> e, track |-> t, label |-> l]

\* What the stub may yield: the two triples of the documented example, one
\* that differs from the second in the track only, one whose interval ends
\* before it starts, and an empty interval whose label needs escaping.
StubTriples ==
    { Triple(0, 12, 0, <<"A">>),
      Triple(12, 34, 1, <<"B">>),
      Triple(12, 34, 0, <<"B">>),
      Triple(34, 12, 1, <<"A">>),
      Triple(12, 12, 0, <<Quote, Backslash>>) }

SeqsUpTo(S, n) == UNION { [1..k -> S] : k \in 0..n }

(***************************************************************************)
(* Text helpers                                                            *)
(***************************************************************************)
RECURSIVE Concat(_)
Concat(ss) == IF ss = <<>> THEN <<>> ELSE Head(ss) \o Concat(Tail(ss))

Spaces(n) == [i \in 1..n |-> Space]

DigitChar(d) == <<"0", "1", "2", "3", "4", "5", "6", "7", "8", "9">>[d + 1]

RECURSIVE IntRepr(_)
IntRepr(n) == IF n < 10 THEN <<DigitChar(n)>>
              ELSE IntRepr(n \div 10) \o <<DigitChar(n % 10)>>

\* float.__repr__ of a time held in tenths: 12 is written 1.2, 0 is 0.0
FloatRepr(t) == IntRepr(t \div 10) \o <<".">> \o <<DigitChar(t % 10)>>

\* json's string encoder: quotes around, backslash before " and \
EscapeChar(c) == IF c \in {Quote, Backslash} THEN <<Backslash, c>> ELSE <<c>>

EncodeString(s) ==
    <<Quote>> \o Concat([i \in 1..Len(s) |-> EscapeChar(s[i])]) \o <<Quote>>

KeyStart == <<"s", "t", "a", "r", "t">>
KeyEnd == <<"e", "n", "d">>
KeySpeaker == <<"s", "p", "e", "a", "k", "e", "r">>
SpeakerPrefix == <<"S", "P", "E", "A", "K", "E", "R", "_">>

ItemSeparator == <<",">>
KeySeparator == <<":", Space>>
NewlineIndent(level) == <<Newline>> \o Spaces(2 * level)

\* the chunks json.dump(..., indent=2) writes for one segment dict
DictChunks(seg) ==
    << <<"{">>, NewlineIndent(2),
       EncodeString(KeyStart), KeySeparator, FloatRepr(seg.start),
       ItemSeparator \o NewlineIndent(2),
       EncodeString(KeyEnd), KeySeparator, FloatRepr(seg.end),
       ItemSeparator \o NewlineIndent(2),
       EncodeString(KeySpeaker), KeySeparator, EncodeString(seg.speaker),
       NewlineIndent(1), <<"}">> >>

\* the chunks json.dump(segs, f, indent=2) passes to f.write, in order
DumpChunks(segs) ==
    IF segs = <<>> THEN << <<"[", "]">> >>
    ELSE Concat([i \in 1..Len(segs) |->
                    << IF i = 1 THEN <<"[">> \o NewlineIndent(1)
                                ELSE ItemSeparator \o NewlineIndent(1) >>
                    \o DictChunks(segs[i])])
         \o << NewlineIndent(0), <<"]">> >>

\* the whole document
Dumps(segs) == Concat(DumpChunks(segs))


(***************************************************************************)
(* The output file                                                         *)
(***************************************************************************)
\* write(2) of chunk at offset off: a gap left by a truncation is zero filled
WriteAt(data, off, chunk) ==
    LET padded == IF Len(data) < off
                  THEN data \o [i \in 1..(off - Len(data)) |-> Nul]
                  ELSE data
    IN SubSeq(padded, 1, off) \o chunk
       \o SubSeq(padded, off + Len(chunk) + 1, Len(padded))

\* what an earlier run left at the output path
StaleData ==
    Dumps(<< [start |-> 0, end |-> 12, speaker |-> SpeakerPrefix \o <<"Z">>] >>)

PriorFiles == { [exists |-> FALSE, data |-> <<>>],
                [exists |-> TRUE, data |-> StaleData] }

(***************************************************************************)
(* Initial states                                                          *)
(***************************************************************************)
Msg(kind, n) == [kind |-> kind, n |-> n]

InitRun(P) ==
    /\ pc = [r \in P |-> "main"]
    /\ access_token = [r \in P |-> None]
    /\ use_auth_token = [r \in P |-> None]
    /\ diarization = [r \in P |-> <<>>]
    /\ it = [r \in P |-> 0]
    /\ segments = [r \in P |-> <<>>]
    /\ chunks = [r \in P |-> <<>>]
    /\ pos = [r \in P |-> 0]
    /\ stdout = [r \in P |-> <<>>]
    /\ stderr = [r \in P |-> <<>>]
    /\ exit = [r \in P |-> -1]
    /\ calls = [r \in P |-> <<>>]
    /\ lastWriter = 0

InitFile(prior) ==
    /\ fileExists = prior.exists
    /\ fileData = prior.data
    /\ before = prior

\* one run, any command line, environment, stub and earlier output file
Init ==
    /\ argv \in [1..1 -> SUBSET (Flags \cup {HelpFlag})]
    /\ env_token \in [1..1 -> Tokens]
    /\ audioOK \in [1..1 -> BOOLEAN]
    /\ stubResult \in [1..1 -> SeqsUpTo(StubTriples, MaxSegs)]
    /\ InitRun(1..1)
    /\ \E prior \in PriorFiles : InitFile(prior)

\* two runs started on the same output path, each with a result of at most
\* one triple
InitConc ==
    /\ argv = [r \in 1..2 |-> Flags]
    /\ env_token = [r \in 1..2 |-> "hf_token"]
    /\ audioOK = [r \in 1..2 |-> TRUE]
    /\ stubResult \in [1..2 -> SeqsUpTo({Triple(0, 12, 0, <<"A">>)}, 1)]
    /\ InitRun(1..2)
    /\ InitFile([exists |-> FALSE, data |-> <<>>])

(***************************************************************************)
(* The script, one action per step                                         *)
(***************************************************************************)
\* an uncaught exception: traceback on stderr, exit status 1
Raise(r) ==
    /\ pc' = [pc EXCEPT ![r] = "failed"]
    /\ stderr' = [stderr EXCEPT ![r] = Append(@, "Traceback")]
    /\ exit' = [exit EXCEPT ![r] = 1]

Enter(r, stage) == calls' = [calls EXCEPT ![r] = Append(@, stage)]

\* lines 45-51: argparse with two required flags and its own help flag.
\* The help flag prints the help text and exits with status 0 as soon as it
\* is met; without it a missing required flag is parser.error: usage on
\* stderr, exit status 2
ParseArgs(r) ==
    /\ pc[r] = "main"
    /\ IF HelpFlag \in argv[r]
       THEN /\ pc' = [pc EXCEPT ![r] = "helped"]
            /\ stdout' = [stdout EXCEPT ![r] = Append(@, Msg("help", 0))]
            /\ exit' = [exit EXCEPT ![r] = 0]
            /\ UNCHANGED stderr
       ELSE IF Flags \subseteq argv[r]
       THEN /\ pc' = [pc EXCEPT ![r] = "start"]
            /\ UNCHANGED <<stdout, stderr, exit>>
       ELSE /\ pc' = [pc EXCEPT ![r] = "failed"]
            /\ stderr' = [stderr EXCEPT ![r] = Append(@, "usage")]
            /\ exit' = [exit EXCEPT ![r] = 2]
            /\ UNCHANGED stdout
    /\ UNCHANGED <<argv, env_token, audioOK, stubResult, access_token,
                   use_auth_token, diarization, it, segments, chunks, pos,
                   calls, fileExists, fileData, before, lastWriter>>

\* Start, were it to give up when the credential is missing
StartRequireToken(r) ==
    /\ pc[r] = "start"
    /\ Enter(r, "environ.get")
    /\ access_token' = [access_token EXCEPT ![r] = env_token[r]]
    /\ stdout' = [stdout EXCEPT ![r] =
                    @ \o <<Msg("Starting", 0)>>
                      \o (IF env_token[r] \in {None, ""}
                          THEN <<Msg("WARNING", 0), Msg("Please set", 0)>>
                          ELSE <<>>)]
    /\ IF env_token[r] \in {None, ""}
       THEN Raise(r)
       ELSE /\ pc' = [pc EXCEPT ![r] = "construct"]
            /\ UNCHANGED <<stderr, exit>>
    /\ UNCHANGED <<argv, env_token, audioOK, stubResult, use_auth_token,
                   diarization, it, segments, chunks, pos,
                   fileExists, fileData, before, lastWriter>>

\* lines 11-18: the start message, the credential, the warning
Start(r) ==
    /\ pc[r] = "start"
    /\ Enter(r, "environ.get")
    /\ access_token' = [access_token EXCEPT ![r] = env_token[r]]
    /\ stdout' = [stdout EXCEPT ![r] =
                    @ \o <<Msg("Starting", 0)>>
                      \o (IF env_token[r] \in {None, ""}
                          THEN <<Msg("WARNING", 0), Msg("Please set", 0)>>
                          ELSE <<>>)]
    /\ pc' = [pc EXCEPT ![r] = "construct"]
    /\ UNCHANGED <<argv, env_token, audioOK, stubResult, use_auth_token,
                   diarization, it, segments, chunks, pos, stderr, exit,
                   fileExists, fileData, before, lastWriter>>

\* Construct, were the output file opened before the pipeline is called
ConstructOpensOutput(r) ==
    /\ pc[r] = "construct"
    /\ Enter(r, "from_pretrained")
    /\ use_auth_token' = [use_auth_token EXCEPT ![r] = access_token[r]]
    /\ fileExists' = TRUE
    /\ fileData' = <<>>
    /\ pc' = [pc EXCEPT ![r] = "infer"]
    /\ UNCHANGED <<argv, env_token, audioOK, stubResult, access_token,
                   diarization, it, segments, chunks, pos, stdout, stderr,
                   exit, before, lastWriter>>

\* lines 21-24: Pipeline.from_pretrained returns
Construct(r) ==
    /\ pc[r] = "construct"
    /\ Enter(r, "from_pretrained")
    /\ use_auth_token' = [use_auth_token EXCEPT ![r] = access_token[r]]
    /\ pc' = [pc EXCEPT ![r] = "infer"]
    /\ UNCHANGED <<argv, env_token, audioOK, stubResult, access_token,
                   diarization, it, segments, chunks, pos, stdout, stderr,
                   exit, fileExists, fileData, before, lastWriter>>

\* lines 21-24: Pipeline.from_pretrained raises
ConstructFail(r) ==
    /\ pc[r] = "construct"
    /\ Enter(r, "from_pretrained")
    /\ use_auth_token' = [use_auth_token EXCEPT ![r] = access_token[r]]
    /\ Raise(r)
    /\ UNCHANGED <<argv, env_token, audioOK, stubResult, access_token,
                   diarization, it, segments, chunks, pos, stdout,
                   fileExists, fileData, before, lastWriter>>

\* line 27: pipeline(audio_file) returns the diarization
Infer(r) ==
    /\ pc[r] = "infer"
    /\ audioOK[r]
    /\ Enter(r, "pipeline")
    /\ diarization' = [diarization EXCEPT ![r] = stubResult[r]]
    /\ pc' = [pc EXCEPT ![r] = "iter"]
    /\ UNCHANGED <<argv, env_token, audioOK, stubResult, access_token,
                   use_auth_token, it, segments, chunks, pos, stdout, stderr,
                   exit, fileExists, fileData, before, lastWriter>>

\* InferFail, were a failed inference retried from the construction
InferFailRetry(r) ==
    /\ pc[r] = "infer"
    /\ Enter(r, "pipeline")
    /\ pc' = [pc EXCEPT ![r] = "construct"]
    /\ UNCHANGED <<argv, env_token, audioOK, stubResult, access_token,
                   use_auth_token, diarization, it, segments, chunks, pos,
                   stdout, stderr, exit, fileExists, fileData, before,
                   lastWriter>>

\* line 27: pipeline(audio_file) raises; it always does on a missing or
\* invalid audio file
InferFail(r) ==
    /\ pc[r] = "infer"
    /\ Enter(r, "pipeline")
    /\ Raise(r)
    /\ UNCHANGED <<argv, env_token, audioOK, stubResult, access_token,
                   use_auth_token, diarization, it, segments, chunks, pos,
                   stdout, fileExists, fileData, before, lastWriter>>

\* lines 30-31: segments = [] and the call of itertracks
IterStart(r) ==
    /\ pc[r] = "iter"
    /\ Enter(r, "itertracks")
    /\ segments' = [segments EXCEPT ![r] = <<>>]
    /\ it' = [it EXCEPT ![r] = 0]
    /\ pc' = [pc EXCEPT ![r] = "loop"]
    /\ UNCHANGED <<argv, env_token, audioOK, stubResult, access_token,
                   use_auth_token, diarization, chunks, pos, stdout, stderr,
                   exit, fileExists, fileData, before, lastWriter>>

\* Segment, were the loop to unpack (turn, speaker, _): the track as label
SegmentWithTrack(tr) ==
    [start |-> tr.start, end |-> tr.end,
     speaker |-> SpeakerPrefix \o <<DigitChar(tr.track)>>]

\* Segment, were an interval put in order before it is stored
SegmentNormalised(tr) ==
    [start |-> IF tr.end < tr.start THEN tr.end ELSE tr.start,
     end |-> IF tr.end < tr.start THEN tr.start ELSE tr.end,
     speaker |-> SpeakerPrefix \o tr.label]

\* lines 32-36: the dict appended for one triple (turn, _, speaker)
Segment(tr) ==
    [start |-> tr.start, end |-> tr.end, speaker |-> SpeakerPrefix \o tr.label]

\* LoopStep, were the segment inserted at the front of the list
LoopStepPrepend(r) ==
    /\ pc[r] = "loop"
    /\ it[r] < Len(diarization[r])
    /\ segments' = [segments EXCEPT ![r] =
                      <<[start |-> diarization[r][it[r] + 1].start,
                         end |-> diarization[r][it[r] + 1].end,
                         speaker |-> SpeakerPrefix
                                       \o diarization[r][it[r] + 1].label]>>
                      \o @]
    /\ it' = [it EXCEPT ![r] = @ + 1]
    /\ UNCHANGED <<argv, env_token, audioOK, stubResult, pc, access_token,
                   use_auth_token, diarization, chunks, pos, stdout, stderr,
                   exit, calls, fileExists, fileData, before, lastWriter>>

\* lines 31-36: one iteration of the loop
LoopStep(r) ==
    /\ pc[r] = "loop"
    /\ it[r] < Len(diarization[r])
    /\ segments' = [segments EXCEPT ![r] =
                      Append(@, Segment(diarization[r][it[r] + 1]))]
    /\ it' = [it EXCEPT ![r] = @ + 1]
    /\ UNCHANGED <<argv, env_token, audioOK, stubResult, pc, access_token,
                   use_auth_token, diarization, chunks, pos, stdout, stderr,
                   exit, calls, fileExists, fileData, before, lastWriter>>

\* line 31: the generator is exhausted
LoopEnd(r) ==
    /\ pc[r] = "loop"
    /\ it[r] = Len(diarization[r])
    /\ pc' = [pc EXCEPT ![r] = "open"]
    /\ UNCHANGED <<argv, env_token, audioOK, stubResult, access_token,
                   use_auth_token, diarization, it, segments, chunks, pos,
                   stdout, stderr, exit, calls, fileExists, fileData, before,
                   lastWriter>>

\* line 31: the generator raises
IterFail(r) ==
    /\ pc[r] = "loop"
    /\ Raise(r)
    /\ UNCHANGED <<argv, env_token, audioOK, stubResult, access_token,
                   use_auth_token, diarization, it, segments, chunks, pos,
                   stdout, calls, fileExists, fileData, before, lastWriter>>

\* OpenOut, were the file opened without truncation
OpenOutKeepData(r) ==
    /\ pc[r] = "open"
    /\ Enter(r, "open")
    /\ fileExists' = TRUE
    /\ fileData' = fileData
    /\ pos' = [pos EXCEPT ![r] = 0]
    /\ chunks' = [chunks EXCEPT ![r] = DumpChunks(segments[r])]
    /\ pc' = [pc EXCEPT ![r] = "dump"]
    /\ UNCHANGED <<argv, env_token, audioOK, stubResult, access_token,
                   use_auth_token, diarization, it, segments, stdout, stderr,
                   exit, before, lastWriter>>

\* line 39: open(output_file, "w") creates or truncates the file; line 40:
\* json.dump starts on the segments
OpenOut(r) ==
    /\ pc[r] = "open"
    /\ Enter(r, "open")
    /\ fileExists' = TRUE
    /\ fileData' = <<>>
    /\ pos' = [pos EXCEPT ![r] = 0]
    /\ chunks' = [chunks EXCEPT ![r] = DumpChunks(segments[r])]
    /\ pc' = [pc EXCEPT ![r] = "dump"]
    /\ UNCHANGED <<argv, env_token, audioOK, stubResult, access_token,
                   use_auth_token, diarization, it, segments, stdout, stderr,
                   exit, before, lastWriter>>

\* OpenFail, were the error caught and the run carried on
OpenFailSwallowed(r) ==
    /\ pc[r] = "open"
    /\ Enter(r, "open")
    /\ pc' = [pc EXCEPT ![r] = "print"]
    /\ UNCHANGED <<argv, env_token, audioOK, stubResult, access_token,
                   use_auth_token, diarization, it, segments, chunks, pos,
                   stdout, stderr, exit, fileExists, fileData, before,
                   lastWriter>>

\* line 39: open raises (no permission, no such directory)
OpenFail(r) ==
    /\ pc[r] = "open"
    /\ Enter(r, "open")
    /\ Raise(r)
    /\ UNCHANGED <<argv, env_token, audioOK, stubResult, access_token,
                   use_auth_token, diarization, it, segments, chunks, pos,
                   stdout, fileExists, fileData, before, lastWriter>>

\* line 40: json.dump writes its next chunk through the handle.  What
\* f.write takes reaches the file when the handle is flushed, at the latest
\* when the with block closes it, on an exception too; here every chunk is
\* flushed as it is written
DumpChunk(r) ==
    /\ pc[r] = "dump"
    /\ chunks[r] # <<>>
    /\ fileData' = WriteAt(fileData, pos[r], Head(chunks[r]))
    /\ pos' = [pos EXCEPT ![r] = @ + Len(Head(chunks[r]))]
    /\ chunks' = [chunks EXCEPT ![r] = Tail(@)]
    /\ lastWriter' = r
    /\ UNCHANGED <<argv, env_token, audioOK, stubResult, pc, access_token,
                   use_auth_token, diarization, it, segments, stdout, stderr,
                   exit, calls, fileExists, before>>

\* line 40: json.dump or the flush on leaving the with block raises (disk
\* full, I/O error, a value json cannot serialise); the file is closed as is
WriteFail(r) ==
    /\ pc[r] = "dump"
    /\ Raise(r)
    /\ UNCHANGED <<argv, env_token, audioOK, stubResult, access_token,
                   use_auth_token, diarization, it, segments, chunks, pos,
                   stdout, calls, fileExists, fileData, before, lastWriter>>

\* lines 39-40: json.dump has returned and the with block closes the file
Close(r) ==
    /\ pc[r] = "dump"
    /\ chunks[r] = <<>>
    /\ pc' = [pc EXCEPT ![r] = "print"]
    /\ UNCHANGED <<argv, env_token, audioOK, stubResult, access_token,
                   use_auth_token, diarization, it, segments, chunks, pos,
                   stdout, stderr, exit, calls, fileExists, fileData, before,
                   lastWriter>>

\* lines 42-43 and the end of the script: exit status 0
PrintDone(r) ==
    /\ pc[r] = "print"
    /\ Enter(r, "print")
    /\ stdout' = [stdout EXCEPT ![r] =
                    @ \o <<Msg("Diarization complete", Len(segments[r])),
                           Msg("Results saved", 0)>>]
    /\ exit' = [exit EXCEPT ![r] = 0]
    /\ pc' = [pc EXCEPT ![r] = "done"]
    /\ UNCHANGED <<argv, env_token, audioOK, stubResult, access_token,
                   use_auth_token, diarization, it, segments, chunks, pos,
                   stderr, fileExists, fileData, before, lastWriter>>

Next ==
    \/ \E r \in Procs : ParseArgs(r)
    \/ \E r \in Procs : Start(r)
    \/ \E r \in Procs : Construct(r)
    \/ \E r \in Procs : ConstructFail(r)
    \/ \E r \in Procs : Infer(r)
    \/ \E r \in Procs : InferFail(r)
    \/ \E r \in Procs : IterStart(r)
    \/ \E r \in Procs : LoopStep(r)
    \/ \E r \in Procs : LoopEnd(r)
    \/ \E r \in Procs : IterFail(r)
    \/ \E r \in Procs : OpenOut(r)
    \/ \E r \in Procs : OpenFail(r)
    \/ \E r \in Procs : DumpChunk(r)
    \/ \E r \in Procs : WriteFail(r)
    \/ \E r \in Procs : Close(r)
    \/ \E r \in Procs : PrintDone(r)

Spec == Init /\ [][Next]_vars

\* the script is straight-line code and every call into the pipeline or the
\* file system returns or raises, so a run that can take a step takes it
FairSpec == Init /\ [][Next]_vars /\ WF_vars(Next)

SpecConc == InitConc /\ [][Next]_vars

(***************************************************************************)
(* The reader of the output file: a JSON parser for an array of objects    *)
(* whose values are strings or numbers.  A number is read back in tenths.  *)
(* An object is read as the set of its <<key, value>> members.             *)
(***************************************************************************)
Fail == [ok |-> FALSE, pos |-> 0, val |-> <<>>]
Ok(p, v) == [ok |-> TRUE, pos |-> p, val |-> v]

NumV(n) == [t |-> "number", n |-> n, s |-> <<>>]
StrV(s) == [t |-> "string", n |-> 0, s |-> s]

At(s, i, c) == i <= Len(s) /\ s[i] = c

RECURSIVE SkipWs(_, _)
SkipWs(s, i) ==
    IF i <= Len(s) /\ s[i] \in {Space, Newline} THEN SkipWs(s, i + 1) ELSE i

RECURSIVE ScanString(_, _, _)
ScanString(s, i, acc) ==
    IF i > Len(s) THEN Fail
    ELSE IF s[i] = Quote THEN Ok(i + 1, acc)
    ELSE IF s[i] = Backslash
         THEN IF i + 1 <= Len(s) /\ s[i + 1] \in {Quote, Backslash}
              THEN ScanString(s, i + 2, Append(acc, s[i + 1]))
              ELSE Fail
    ELSE IF s[i] \in {Newline, Nul} THEN Fail
    ELSE ScanString(s, i + 1, Append(acc, s[i]))

ParseString(s, i) == IF At(s, i, Quote) THEN ScanString(s, i + 1, <<>>) ELSE Fail

IsDigit(c) == \E d \in 0..9 : DigitChar(d) = c
DigitVal(c) == CHOOSE d \in 0..9 : DigitChar(d) = c

RECURSIVE ScanInt(_, _, _)
ScanInt(s, i, acc) ==
    IF i <= Len(s) /\ IsDigit(s[i])
    THEN ScanInt(s, i + 1, 10 * acc + DigitVal(s[i]))
    ELSE Ok(i, acc)

\* digits, then at most one fraction digit: more is no multiple of a tenth
ParseNumber(s, i) ==
    IF ~(i <= Len(s) /\ IsDigit(s[i])) THEN Fail
    ELSE LET ip == ScanInt(s, i, 0)
         IN IF At(s, ip.pos, ".")
            THEN LET fp == ScanInt(s, ip.pos + 1, 0)
                 IN IF fp.pos = ip.pos + 2
                    THEN Ok(fp.pos, NumV(10 * ip.val + fp.val))
                    ELSE Fail
            ELSE Ok(ip.pos, NumV(10 * ip.val))

ParseValue(s, i) ==
    IF At(s, i, Quote)
    THEN LET r == ParseString(s, i)
         IN IF r.ok THEN Ok(r.pos, StrV(r.val)) ELSE Fail
    ELSE ParseNumber(s, i)

ParsePair(s, i) ==
    LET k == ParseString(s, i)
    IN IF ~k.ok THEN Fail
       ELSE LET c == SkipWs(s, k.pos)
            IN IF ~At(s, c, ":") THEN Fail
               ELSE LET v == ParseValue(s, SkipWs(s, c + 1))
                    IN IF v.ok THEN Ok(v.pos, <<k.val, v.val>>) ELSE Fail

RECURSIVE ParseMembers(_, _, _)
ParseMembers(s, i, acc) ==
    LET p == ParsePair(s, i)
    IN IF ~p.ok THEN Fail
       ELSE LET j == SkipWs(s, p.pos)
            IN IF At(s, j, ",")
               THEN ParseMembers(s, SkipWs(s, j + 1), acc \cup {p.val})
               ELSE IF At(s, j, "}") THEN Ok(j + 1, acc \cup {p.val})
               ELSE Fail

ParseObject(s, i) ==
    IF ~At(s, i, "{") THEN Fail
    ELSE LET j == SkipWs(s, i + 1)
         IN IF At(s, j, "}") THEN Ok(j + 1, {}) ELSE ParseMembers(s, j, {})

RECURSIVE ParseElements(_, _, _)
ParseElements(s, i, acc) ==
    LET o == ParseObject(s, i)
    IN IF ~o.ok THEN Fail
       ELSE LET j == SkipWs(s, o.pos)
            IN IF At(s, j, ",")
               THEN ParseElements(s, SkipWs(s, j + 1), Append(acc, o.val))
               ELSE IF At(s, j, "]") THEN Ok(j + 1, Append(acc, o.val))
               ELSE Fail

ParseArray(s, i) ==
    IF ~At(s, i, "[") THEN Fail
    ELSE LET j == SkipWs(s, i + 1)
         IN IF At(s, j, "]") THEN Ok(j + 1, <<>>) ELSE ParseElements(s, j, <<>>)

\* the whole text is one array, with nothing but white space around it
ParseJSON(s) ==
    LET a == ParseArray(s, SkipWs(s, 1))
    IN IF a.ok /\ SkipWs(s, a.pos) = Len(s) + 1 THEN a ELSE Fail

\* the object a segment with these values reads back as
ObjOf(start, end, speaker) ==
    { <<KeyStart, NumV(start)>>, <<KeyEnd, NumV(end)>>,
      <<KeySpeaker, StrV(speaker)>> }

Member(obj, key) == (CHOOSE p \in obj : p[1] = key)[2]

Read == ParseJSON(fileData)

IsPrefix(a, b) == Len(a) <= Len(b) /\ a = SubSeq(b, 1, Len(a))

(***************************************************************************)
(* Properties                                                              *)
(***************************************************************************)
StageOrder ==
    <<"environ.get", "from_pretrained", "pipeline", "itertracks", "open",
      "print">>

Terminated(r) == pc[r] \in {"done", "failed", "helped"}

Unset(r) == env_token[r] \in {None, ""}

NotWarning(m) == m.kind \notin {"WARNING", "Please set"}

SameButTrack(a, b) ==
    a.start = b.start /\ a.end = b.end /\ a.label = b.label /\ a.track # b.track

\* C1: after a successful run on a stub result of N triples the output file
\* is a JSON array of exactly N elements, the element of the i-th triple has
\* speaker "SPEAKER_" followed by that triple's label, and two triples that
\* differ in the track only give equal elements.
C1_CountAndPrefix ==
    \A r \in Procs :
        pc[r] = "done" =>
            /\ fileExists
            /\ Read.ok
            /\ Len(Read.val) = Len(stubResult[r])
            /\ \A i \in 1..Len(stubResult[r]) :
                  <<KeySpeaker, StrV(SpeakerPrefix \o stubResult[r][i].label)>>
                      \in Read.val[i]
            /\ \A i, j \in 1..Len(stubResult[r]) :
                  SameButTrack(stubResult[r][i], stubResult[r][j])
                      => Read.val[i] = Read.val[j]

C1_Witness ==
    \E r \in Procs :
        /\ pc[r] = "done"
        /\ Len(stubResult[r]) = 2
        /\ SameButTrack(stubResult[r][1], stubResult[r][2])

\* C2: the segments are kept, in memory and in the file, in the order the
\* pipeline yielded the triples: the i-th element is built from the i-th
\* triple and none is sorted, merged, dropped or deduplicated.
C2_YieldOrder ==
    \A r \in Procs :
        /\ pc[r] \in {"loop", "open", "dump", "print", "done"} =>
              segments[r] =
                  [i \in 1..it[r] |->
                      [start |-> diarization[r][i].start,
                       end |-> diarization[r][i].end,
                       speaker |-> SpeakerPrefix \o diarization[r][i].label]]
        /\ pc[r] \in {"open", "dump", "print", "done"} =>
              it[r] = Len(stubResult[r])
        /\ pc[r] = "done" =>
              /\ Read.ok
              /\ Read.val =
                    [i \in 1..Len(stubResult[r]) |->
                        ObjOf(stubResult[r][i].start, stubResult[r][i].end,
                              SpeakerPrefix \o stubResult[r][i].label)]

C2_Witness ==
    \E r \in Procs :
        /\ pc[r] = "done"
        /\ Len(stubResult[r]) = 2
        /\ stubResult[r][1].start > stubResult[r][2].start
        /\ Member(Read.val[1], KeyStart).n > Member(Read.val[2], KeyStart).n

\* C3: after a failed run the output path does not exist or still holds the
\* content it had before the run.
C3_FailedRunLeavesFile ==
    \A r \in Procs :
        pc[r] = "failed" =>
            \/ ~fileExists
            \/ before.exists /\ fileData = before.data

\* C4: when the audio path is missing or invalid the run never gets past
\* the pipeline call and never opens the output file, once the pipeline has
\* been called the run has failed with a non-zero exit status, and the
\* output path stays as it was.
C4_BadAudioUntouched ==
    \A r \in Procs :
        ~audioOK[r] =>
            /\ pc[r] \in {"main", "helped", "start", "construct", "infer",
                          "failed"}
            /\ "open" \notin {calls[r][i] : i \in 1..Len(calls[r])}
            /\ "pipeline" \in {calls[r][i] : i \in 1..Len(calls[r])} =>
                  pc[r] = "failed" /\ exit[r] = 1
            /\ pc[r] = "failed" => exit[r] \in {1, 2}
            /\ fileExists = before.exists
            /\ fileData = before.data

C4_Witness ==
    \E r \in Procs :
        /\ ~audioOK[r]
        /\ pc[r] = "failed"
        /\ calls[r] = SubSeq(StageOrder, 1, 3)
        /\ exit[r] = 1
        /\ fileExists
        /\ fileData = StaleData

\* C5: with HUGGINGFACE_TOKEN unset or empty the warning is printed before
\* the pipeline is constructed, the pipeline is constructed with the absent
\* credential, the run does not end before that construction, and a run
\* that succeeds writes the file and ends as a run with a token does.
C5_WarnAndProceed ==
    \A r \in Procs :
        /\ (Unset(r) /\ calls[r] # <<>>) =>
              /\ Len(stdout[r]) >= 3
              /\ SubSeq(stdout[r], 1, 3) =
                    <<Msg("Starting", 0), Msg("WARNING", 0),
                      Msg("Please set", 0)>>
        /\ (Unset(r) /\ Len(calls[r]) >= 2) =>
              /\ calls[r][2] = "from_pretrained"
              /\ use_auth_token[r] = env_token[r]
        /\ (Unset(r) /\ Terminated(r) /\ calls[r] # <<>>) =>
              Len(calls[r]) >= 2
        /\ pc[r] = "done" =>
              /\ exit[r] = 0
              /\ fileExists
              /\ fileData =
                    Dumps([i \in 1..Len(stubResult[r]) |->
                             [start |-> stubResult[r][i].start,
                              end |-> stubResult[r][i].end,
                              speaker |->
                                  SpeakerPrefix \o stubResult[r][i].label]])
              /\ SelectSeq(stdout[r], NotWarning) =
                    <<Msg("Starting", 0),
                      Msg("Diarization complete", Len(stubResult[r])),
                      Msg("Results saved", 0)>>

C5_Witness ==
    \E r \in Procs :
        /\ Unset(r)
        /\ pc[r] = "done"
        /\ use_auth_token[r] = None
        /\ Len(stubResult[r]) > 0

C6_Outcomes ==
    \A r \in Procs :
        /\ exit[r] \in {-1, 0, 1, 2}
        /\ exit[r] = 0 <=> pc[r] \in {"done", "helped"}
        /\ exit[r] \in {1, 2} <=> pc[r] = "failed"
        /\ pc[r] = "helped" =>
              /\ HelpFlag \in argv[r]
              /\ calls[r] = <<>>
              /\ stdout[r] = <<Msg("help", 0)>>
              /\ fileExists = before.exists
              /\ fileData = before.data
        /\ pc[r] = "done" =>
              /\ calls[r] = StageOrder
              /\ chunks[r] = <<>>
              /\ fileExists
              /\ fileData = Dumps(segments[r])
              /\ stderr[r] = <<>>
        /\ pc[r] = "failed" =>
              /\ stderr[r] # <<>>
              /\ \A i \in 1..Len(stdout[r]) :
                    stdout[r][i].kind \notin
                        {"Diarization complete", "Results saved"}
              /\ "print" \notin {calls[r][i] : i \in 1..Len(calls[r])}

\* C6 as amended: every run ends; a run given the help flag exits with
\* status 0 after printing the help text, entering no stage and leaving the
\* output path alone; any other run exits with status 0 only when every
\* stage succeeded and the output file is completely written, and with a
\* non-zero status on any failure, which is never turned into a success and
\* prints no success message; a run that has ended stays as it ended.
C6_TwoOutcomes ==
    /\ []C6_Outcomes
    /\ [][\A r \in Procs :
            Terminated(r) => pc'[r] = pc[r] /\ exit'[r] = exit[r]
                             /\ stdout'[r] = stdout[r]]_vars
    /\ <>(\A r \in Procs : Terminated(r))

\* C6 as stated: exit status 0 is reached only when all stages succeeded
\* and the output file has been completely written.
C6_ZeroOnlyWhenWritten ==
    \A r \in Procs :
        exit[r] = 0 =>
            /\ calls[r] = StageOrder
            /\ fileExists
            /\ fileData = Dumps(segments[r])

C6_Witness ==
    \E r \in Procs :
        /\ pc[r] = "failed"
        /\ exit[r] = 1
        /\ calls[r] = SubSeq(StageOrder, 1, 5)
        /\ fileExists

\* C7: once two runs on the same output path have both finished, the file
\* holds the complete output of the run that wrote last.
C7_LastWriterWins ==
    (\A r \in Procs : pc[r] = "done") =>
        /\ Read.ok
        /\ fileData = Dumps(segments[lastWriter])

\* C8: after a successful run the output file is valid JSON that reads back
\* as the list of segments the run built, with the same length, order, keys
\* and values; nothing of an earlier content is left.
C8_RoundTrip ==
    \A r \in Procs :
        pc[r] = "done" =>
            /\ fileExists
            /\ Read.ok
            /\ Len(Read.val) = Len(segments[r])
            /\ \A i \in 1..Len(segments[r]) :
                  Read.val[i] = ObjOf(segments[r][i].start, segments[r][i].end,
                                      segments[r][i].speaker)

C8_Witness ==
    \E r \in Procs :
        /\ pc[r] = "done"
        /\ before.exists
        /\ Len(fileData) < Len(before.data)

\* C9: the stages of a run are entered in the order credential, pipeline
\* construction, inference, transformation, file, completion message, each
\* at most once; a run that failed enters no further stage and repeats
\* none.
C9_LinearStages ==
    /\ [](\A r \in Procs : IsPrefix(calls[r], StageOrder))
    /\ [][\A r \in Procs :
            /\ IsPrefix(calls[r], calls'[r])
            /\ Len(calls'[r]) <= Len(calls[r]) + 1
            /\ pc[r] = "failed" => calls'[r] = calls[r] /\ pc'[r] = "failed"]_vars

C9_Witness ==
    \E r \in Procs :
        /\ pc[r] = "failed"
        /\ calls[r] = SubSeq(StageOrder, 1, 4)
        /\ it[r] > 0

\* C10: start and end of every segment, in memory and in the file, are the
\* start and end of the triple it was built from; an interval that ends
\* before it starts is written as it is, and end >= start holds in the
\* output whenever it holds for every yielded interval.
C10_IntervalVerbatim ==
    \A r \in Procs :
        /\ \A i \in 1..Len(segments[r]) :
              /\ segments[r][i].start = diarization[r][i].start
              /\ segments[r][i].end = diarization[r][i].end
        /\ pc[r] = "done" =>
              /\ Read.ok
              /\ Len(Read.val) = Len(stubResult[r])
              /\ \A i \in 1..Len(stubResult[r]) :
                    /\ <<KeyStart, NumV(stubResult[r][i].start)>> \in Read.val[i]
                    /\ <<KeyEnd, NumV(stubResult[r][i].end)>> \in Read.val[i]
              /\ (\A i \in 1..Len(stubResult[r]) :
                      stubResult[r][i].end >= stubResult[r][i].start)
                    => \A i \in 1..Len(Read.val) :
                          Member(Read.val[i], KeyEnd).n
                              >= Member(Read.val[i], KeyStart).n

C10_Witness ==
    \E r \in Procs :
        /\ pc[r] = "done"
        /\ \E i \in 1..Len(stubResult[r]) :
              /\ stubResult[r][i].end < stubResult[r][i].start
              /\ Member(Read.val[i], KeyEnd).n < Member(Read.val[i], KeyStart).n

=============================================================================
